---------------------------- MODULE Spec2Model ----------------------------
(***************************************************************************)
(* A model of jira_metrics.py (class JiraMetricsExtractor):                *)
(*   - the request executor: _rate_limit and _make_request_with_retry,     *)
(*   - the paginated fetcher: get_issues and its two strategies,           *)
(*   - the changelog replay: parse_datetime and calculate_cycle_time.      *)
(* Time is counted in ticks, TicksPerSecond ticks to the second, so that   *)
(* the sub-second jitter of the code has values.  The code reads the clock *)
(* only in the difference time.time() - self.last_request_time (line 52),  *)
(* so the state keeps that difference, since_last, and not the two terms;  *)
(* differences saturate at TimeCap, beyond every interval compared with.   *)
(***************************************************************************)
EXTENDS Integers, Sequences, FiniteSets, TLC

(***************************************************************************)
(* Bounds of the model.                                                    *)
(***************************************************************************)
TicksPerSecond == 10
MaxLag == 1
MaxWindow == 3
MaxResults == 2
MaxHist == 1
MaxTime == 1
MaxEvents == 2
MaxHour == 2
MaxChain == 3
MaxTicks == 1
MaxFull == 201
MaxZoneHour == 2

(***************************************************************************)
(* Program constants (JiraMetricsExtractor.__init__ and literals).         *)
(***************************************************************************)
default_requests_per_minute == 60
max_retries == 5
base_backoff == 1
default_retry_after == 60
page_limit == 100

VARIABLES
    \* ---- executor: fields of the client instance
    since_last,           \* time.time() - self.last_request_time, in ticks
    requests_per_minute,  \* self.requests_per_minute
    request_interval,     \* self.request_interval, in ticks
    \* ---- executor: one call of _make_request_with_retry
    pc,                   \* "idle" | "gate" | "send" | "returned" | "raised"
    attempt,              \* the loop variable of line 62
    result,               \* status of the response returned (0: none)
    err,                  \* the exception raised out of the call
    \* ---- executor: history of the run, for the properties
    hist,                 \* outcomes the server gave in this call, in order
    backoffs,             \* backoff sleeps (lines 85, 98) of this call
    waits,                \* Retry-After sleeps (line 75) of this call
    lastSlept,            \* the latest attempt ended in a sleep
    slept,                \* the backoff_time it slept (lines 85, 98), in
                          \* ticks; 0 when it did not back off
    gated,                \* _rate_limit ran since the latest request
    allGated,             \* every request so far was issued right after _rate_limit
    anyReq,               \* a request has been issued on this instance
    sinceReq,             \* time since the latest request was issued
    spaced,               \* every request came at least request_interval
                          \* (as in force then) after the request before it
    nReqs,                \* requests issued since the rate was last set
    window,               \* time from the first of those to the latest
    \* ---- fetcher: one call of get_issues(jql, max_results)
    max_results,          \* the cap given by the caller
    fpc,                  \* "call" | "jql_while" | "jql_for" | "search_while"
                          \* | "done" | "raised"
    issues_jql,           \* the list `issues` of _get_issues_v3_jql
    next_page_token,      \* its next_page_token ("": None)
    data,                 \* the page in hand: response.json()
    idx,                  \* position of the for loop of line 134 in the page
    issues_search,        \* the list `issues` of _get_issues_v3_search
    start_at,             \* its start_at
    returned,             \* the list get_issues returned
    \* ---- fetcher: history of the run, for the properties
    params,               \* the parameters of the latest page request
    jqlRaised,            \* _get_issues_v3_jql raised: "no", or what raised
    discarded,            \* issues it had collected when it raised
    searchCalls,          \* calls of _get_issues_v3_search
    servedSearch,         \* the issues of the pages the offset endpoint served
    okEntries,            \* the page entries whose detail fetch succeeded
    lastDetail,           \* the latest _get_issue_detail: "ok", "failed"
    failedBefore,         \* a detail fetch failed: "no", "yes", and "ok after"
                          \* once a later one succeeded
    \* ---- replay: calculate_cycle_time(issue)
    cycle_time_statuses,  \* self.cycle_time_statuses
    issue,                \* the issue handed to calculate_cycle_time
    now,                  \* the clock datetime.now reads, in hours
    out,                  \* what the latest call returned or raised
    before,               \* what the call before it on the same issue returned
    between,              \* what happened since that call: "clock", "other"
    \* ---- extract_metrics(jql, max_results)
    tracker,              \* the issue the server holds under each id
    epc,                  \* "fetch" (line 296), "for" (line 301), "returned",
                          \* "raised"
    metrics,              \* the list built by lines 299..319
    pos,                  \* the position of the for loop in issues
    \* ---- executor calls of one get_issues, counted by kind
    listCalls,            \* page requests (line 125)
    detailCalls           \* detail requests (line 183)

execVars == <<since_last, requests_per_minute, request_interval,
              pc, attempt, result, err, hist, backoffs, waits, lastSlept,
              slept,              gated, allGated, anyReq, sinceReq, spaced, nReqs, window>>

fetchVars == <<max_results, fpc, issues_jql, next_page_token, data, idx,
               issues_search, start_at, returned, params, jqlRaised, discarded,
               searchCalls, servedSearch, okEntries, lastDetail, failedBefore>>

replayVars == <<cycle_time_statuses, issue, now, out, before, between>>
extractVars == <<tracker, epc, metrics, pos>>
callVars == <<listCalls, detailCalls>>

(***************************************************************************)
(* Outcomes of one session.request: a response with a status, or a         *)
(* network-level failure (a requests.exceptions.RequestException).         *)
(***************************************************************************)
Resp(s) == [kind |-> "response", status |-> s]
NetworkError == [kind |-> "network", status |-> 0]
Statuses == {200, 404, 429, 500}
Outcomes == {Resp(s) : s \in Statuses} \cup {NetworkError}

\* The exceptions that leave _make_request_with_retry.
NoError == [kind |-> "none", status |-> 0]
HTTPError(s) == [kind |-> "HTTPError", status |-> s]
ConnectionError == [kind |-> "ConnectionError", status |-> 0]
ValueError == [kind |-> "ValueError", status |-> 0]
FailedAfterRetries == [kind |-> "Exception", status |-> 0]

\* The exception an outcome is, when it is one (lines 81, 89, 66).
ExceptionOf(o) == IF o.kind = "network" THEN ConnectionError ELSE HTTPError(o.status)

\* Response.raise_for_status raises HTTPError for 400 <= status < 600.
raise_for_status_server_only(s) == s >= 500 /\ s < 600
raise_for_status(s) == s >= 400 /\ s < 600

\* Values of the Retry-After header and int() of them (line 70).
RetryAfterHeaders == {"absent", "0", "soon"}
IntOfHeader == [h \in {"0"} |-> 0]
HeaderParses(h) == h = "absent" \/ h \in DOMAIN IntOfHeader
retry_after(h) == IF h = "absent" THEN default_retry_after ELSE IntOfHeader[h]

\* random.uniform(0.1, 0.5) and random.uniform(0, 1): the ends of the range.
RateLimitJitter == {TicksPerSecond \div 10, TicksPerSecond \div 2}
BackoffJitter == {0, TicksPerSecond}

RECURSIVE Pow2(_)
Pow2(n) == IF n = 0 THEN 1 ELSE 2 * Pow2(n - 1)

\* A backoff that grows by base_backoff with each attempt.
backoff_time_linear(a, jitter) ==
    base_backoff * TicksPerSecond * (a + 1) + jitter

\* (self.base_backoff * (2 ** attempt)) + random.uniform(0, 1), lines 83 and 96.
backoff_time(a, jitter) == base_backoff * TicksPerSecond * Pow2(a) + jitter

\* 60.0 / requests_per_minute, lines 35 and 47.
RpmChoices == {60, 30}
interval_of(rpm) == (60 * TicksPerSecond) \div rpm

\* for attempt in range(self.max_retries): is there a next iteration.
LoopContinuesOneMore(a) == a + 1 <= max_retries
LoopContinues(a) == a + 1 < max_retries

\* attempt == self.max_retries - 1, lines 80 and 93.
IsFinalAttemptOffByOne(a) == a = max_retries
IsFinalAttempt(a) == a = max_retries - 1

\* Differences of clock readings saturate here: twice the longest interval.
MinRpm == CHOOSE r \in RpmChoices : \A q \in RpmChoices : r <= q
TimeCap == 2 * interval_of(MinRpm)
Sat(t) == IF t > TimeCap THEN TimeCap ELSE t
WindowCap == MaxWindow * interval_of(MinRpm)
SatW(t) == IF t > WindowCap THEN WindowCap ELSE t

\* last_request_time = 0 at construction (line 36); the clock starts at that
\* same reading (an injected clock) or far beyond it (the epoch clock).
ExecInit(clocks) ==
    /\ since_last \in clocks
    /\ requests_per_minute = default_requests_per_minute
    /\ request_interval = interval_of(default_requests_per_minute)
    /\ pc = "idle"
    /\ attempt = 0
    /\ result = 0
    /\ err = NoError
    /\ hist = <<>>
    /\ backoffs = 0
    /\ waits = 0
    /\ lastSlept = FALSE
    /\ slept = 0
    /\ gated = FALSE
    /\ allGated = TRUE
    /\ anyReq = FALSE
    /\ sinceReq = 0
    /\ spaced = TRUE
    /\ nReqs = 0
    /\ window = 0

\* d ticks pass.
Pass(d) ==
    /\ since_last' = Sat(since_last + d)
    /\ sinceReq' = Sat(sinceReq + d)

\* set_rate_limit, between calls.
set_rate_limit ==
    /\ UNCHANGED <<fetchVars, replayVars, extractVars, callVars>>
    /\ pc \in {"idle", "returned", "raised"}
    /\ \E rpm \in RpmChoices :
        /\ rpm # requests_per_minute
        /\ requests_per_minute' = rpm
        /\ request_interval' = interval_of(rpm)
    /\ nReqs' = 0
    /\ window' = 0
    /\ UNCHANGED <<since_last, pc, attempt, result, err, hist, backoffs, waits,
                   lastSlept, slept, gated, allGated, anyReq, sinceReq,
                   spaced>>

\* A caller enters _make_request_with_retry, shortly or long after the call
\* before: the loop starts at attempt 0.
BeginCall ==
    /\ UNCHANGED <<fetchVars, replayVars, extractVars, callVars>>
    /\ pc \in {"idle", "returned", "raised"}
    /\ pc' = "gate"
    /\ attempt' = 0
    /\ result' = 0
    /\ err' = NoError
    /\ hist' = <<>>
    /\ backoffs' = 0
    /\ waits' = 0
    /\ lastSlept' = FALSE /\ slept' = 0
    /\ \E d \in (0..MaxLag) \cup {TimeCap} : Pass(d)
    /\ UNCHANGED <<requests_per_minute, request_interval, gated, allGated,
                   anyReq, spaced, nReqs, window>>

\* _rate_limit without its sleep.
rate_limit_no_sleep ==
    /\ UNCHANGED <<fetchVars, replayVars, extractVars, callVars>>
    /\ pc = "gate"
    /\ \E lag \in 0..MaxLag : sinceReq' = Sat(sinceReq + lag)
    /\ since_last' = 0
    /\ gated' = TRUE
    /\ pc' = "send"
    /\ UNCHANGED <<requests_per_minute, request_interval, attempt, result, err,
                   hist, backoffs, waits, lastSlept, slept, allGated, anyReq,
                   spaced, nReqs, window>>

\* _rate_limit, called at the head of every iteration (line 63).  time.sleep
\* returns after at least the time asked for; line 58 then stores the clock.
_rate_limit ==
    /\ UNCHANGED <<fetchVars, replayVars, extractVars, callVars>>
    /\ pc = "gate"
    /\ LET time_since_last == since_last
           sleep_time == IF time_since_last < request_interval
                         THEN request_interval - time_since_last
                         ELSE 0
       IN \E lag \in 0..MaxLag : sinceReq' = Sat(sinceReq + sleep_time + lag)
    /\ since_last' = 0
    /\ gated' = TRUE
    /\ pc' = "send"
    /\ UNCHANGED <<requests_per_minute, request_interval, attempt, result, err,
                   hist, backoffs, waits, lastSlept, slept, allGated, anyReq,
                   spaced, nReqs, window>>

\* What the history records when session.request is called.
IssueRequest ==
    /\ anyReq' = TRUE
    /\ spaced' = (spaced /\ (anyReq => sinceReq >= request_interval))
    /\ allGated' = (allGated /\ gated)
    /\ gated' = FALSE
    /\ nReqs' = IF nReqs < MaxWindow THEN nReqs + 1 ELSE nReqs
    /\ window' = IF nReqs = 0 THEN 0
                 ELSE IF nReqs < MaxWindow THEN SatW(window + sinceReq)
                 ELSE window

\* The time that passes from the request's issue to the end of the iteration.
Elapse(d) ==
    /\ since_last' = Sat(since_last + d)
    /\ sinceReq' = Sat(d)

\* The call returns the response (line 90).
Return(s, d) ==
    /\ pc' = "returned"
    /\ result' = s
    /\ Elapse(d)
    /\ lastSlept' = FALSE /\ slept' = 0
    /\ UNCHANGED <<attempt, err, backoffs, waits>>

\* An exception leaves the call (lines 94, 100, or one no handler catches).
Raise(e, d) ==
    /\ pc' = "raised"
    /\ err' = e
    /\ Elapse(d)
    /\ UNCHANGED <<attempt, result, backoffs, waits>>

\* The next iteration of the loop, or line 100 when the range is used up.
Continue(d) ==
    IF LoopContinues(attempt)
    THEN /\ pc' = "gate"
         /\ attempt' = attempt + 1
         /\ Elapse(d)
         /\ UNCHANGED <<result, err>>
    ELSE /\ pc' = "raised"
         /\ err' = FailedAfterRetries
         /\ Elapse(d)
         /\ UNCHANGED <<attempt, result>>

\* The backoff sleep of lines 83..86 and 96..98, then the next iteration.
Backoff(d) ==
    \E jitter \in BackoffJitter, lag \in 0..MaxLag :
        /\ Continue(d + backoff_time(attempt, jitter) + lag)
        /\ backoffs' = backoffs + 1
        /\ waits' = waits
        /\ lastSlept' = TRUE
        /\ slept' = backoff_time(attempt, jitter)

\* except requests.exceptions.RequestException (lines 92..98).
ExceptHandler(e, d) ==
    IF IsFinalAttempt(attempt)
    THEN Raise(e, d) /\ lastSlept' = FALSE /\ slept' = 0
    ELSE Backoff(d)

\* One iteration of the loop after the gate (lines 65..98): the request is
\* sent, the server answers with o after dur ticks, the answer is handled.
request_attempt ==
    /\ UNCHANGED <<fetchVars, replayVars, extractVars, callVars>>
    /\ pc = "send"
    /\ IssueRequest
    /\ \E o \in Outcomes, dur \in 0..MaxLag :
        /\ hist' = Append(hist, o)
        /\ IF o.kind = "network"
           THEN ExceptHandler(ExceptionOf(o), dur)
           ELSE IF o.status = 429
           THEN \E h \in RetryAfterHeaders :
                   IF HeaderParses(h)
                   THEN \E jitter \in RateLimitJitter, lag \in 0..MaxLag :
                           /\ Continue(dur + retry_after(h) * TicksPerSecond
                                           + jitter + lag)
                           /\ waits' = waits + 1
                           /\ backoffs' = backoffs
                           /\ lastSlept' = TRUE
                           /\ slept' = 0
                   ELSE \* int() of line 70 raises; no handler catches it
                        Raise(ValueError, dur) /\ lastSlept' = FALSE /\ slept' = 0
           ELSE IF o.status >= 500
           THEN IF IsFinalAttempt(attempt)
                THEN \* raise_for_status raises inside the try block
                     ExceptHandler(ExceptionOf(o), dur)
                ELSE Backoff(dur)
           ELSE IF raise_for_status(o.status)
                THEN \* line 89 is inside the try block: the HTTPError it
                     \* raises is a RequestException and line 92 catches it
                     ExceptHandler(ExceptionOf(o), dur)
                ELSE Return(o.status, dur)
    /\ UNCHANGED <<requests_per_minute, request_interval>>

ExecNext == set_rate_limit \/ BeginCall \/ _rate_limit \/ request_attempt


(***************************************************************************)
(* Properties of the executor.                                             *)
(***************************************************************************)
Last(h) == h[Len(h)]
IsClientError(o) ==
    o.kind = "response" /\ o.status >= 400 /\ o.status < 500 /\ o.status # 429
IsServerError(o) == o.kind = "response" /\ o.status >= 500
IsTransient(o) ==
    o.kind = "network" \/ o.status = 429 \/ IsServerError(o)
Finished == pc \in {"returned", "raised"}
AllServerErrors(k) == \A i \in 1..k : IsServerError(hist[i])

\* C1 (as claimed): once the server has answered an attempt with a 4xx status
\* other than 429, the call has failed with that status: it is raised at
\* once, without a backoff sleep and without another attempt.
C1_ClientErrorFailsImmediately ==
    (hist # <<>> /\ IsClientError(Last(hist)))
        => (pc = "raised" /\ err = HTTPError(Last(hist).status) /\ ~lastSlept)

\* C2: one call issues at most max_retries requests, whatever the server
\* answers, and after the max_retries-th it has returned or raised.
C2_AtMostMaxRetriesRequests ==
    /\ Len(hist) <= max_retries
    /\ Len(hist) = max_retries => Finished

C2_Witness ==
    /\ pc = "raised"
    /\ Len(hist) = max_retries
    /\ hist[1].status = 429
    /\ hist[2].kind = "network"
    /\ IsServerError(hist[max_retries])

\* C3: k 5xx answers then a success, k < max_retries: the call returns that
\* response after exactly k backoff sleeps.  max_retries 5xx answers: the
\* call raises the last one's HTTPError after max_retries attempts and
\* max_retries - 1 backoff sleeps, none after the final attempt.  Until then
\* a call that has seen only 5xx answers goes on.
C3_ServerErrorRetries ==
    LET n == Len(hist) IN
    /\ (pc = "returned" /\ AllServerErrors(n - 1))
          => (backoffs = n - 1 /\ waits = 0 /\ result = hist[n].status)
    /\ (n = max_retries /\ AllServerErrors(n))
          => /\ pc = "raised"
             /\ err = HTTPError(hist[n].status)
             /\ backoffs = max_retries - 1
             /\ ~lastSlept
    /\ (n > 0 /\ n < max_retries /\ AllServerErrors(n))
          => (pc \in {"gate", "send"} /\ backoffs = n /\ lastSlept)

C3_Witness ==
    /\ pc = "returned"
    /\ Len(hist) = 3
    /\ AllServerErrors(2)
    /\ result = 200
    /\ backoffs = 2

\* C4: a response handed back to the caller has a status that is not 429
\* and not in 400..599.
C4_ReturnedResponseIsNoError ==
    pc = "returned" => (result # 429 /\ ~(result >= 400 /\ result <= 599))

C4_Witness ==
    /\ pc = "returned"
    /\ result = 200
    /\ Len(hist) = 3
    /\ hist[1].status = 429
    /\ IsServerError(hist[2])

\* C5 (as claimed): when all max_retries attempts got a transient outcome
\* (429, 5xx, network error), the call fails with the error of the last
\* attempt: its status or its exception, also when that attempt got a 429.
\* (A 429 whose Retry-After header is no integer is left aside here.)
C5_ExhaustionCarriesLastOutcome ==
    (/\ pc = "raised"
     /\ Len(hist) = max_retries
     /\ \A i \in 1..Len(hist) : IsTransient(hist[i])
     /\ err # ValueError)
        => err = ExceptionOf(Last(hist))

\* C6: every request is issued right after _rate_limit, every request comes
\* at least request_interval after the one before it, and the first N
\* requests under one rate span at least (N - 1) * request_interval.
C6_RequestsSpaced ==
    /\ allGated
    /\ spaced
    /\ nReqs >= 1 => window >= (nReqs - 1) * request_interval

\* Three requests, each as early as the gate allows, the gate having slept.
C6_Witness ==
    /\ requests_per_minute = MinRpm
    /\ nReqs = 3
    /\ window = 2 * request_interval
    /\ Len(hist) >= 2
    /\ pc = "gate"

\* The latest attempt got a 5xx response or a network-level failure.
FailedTransiently ==
    /\ hist # <<>>
    /\ IsServerError(Last(hist)) \/ Last(hist).kind = "network"

\* C23: the backoff sleep after a 5xx response or a network-level failure on
\* zero-based attempt a, which is below max_retries - 1, is base_backoff *
\* 2^a plus a jitter between 0 and 1 second, by the same formula for both
\* kinds of failure: the part without the jitter doubles with each attempt.
C23_BackoffIsExponentialWithJitter ==
    (slept # 0 /\ FailedTransiently) =>
        LET a == attempt - 1
            deterministic == base_backoff * TicksPerSecond * Pow2(a)
        IN /\ pc = "gate" \/ pc = "send"
           /\ a >= 0 /\ a < max_retries - 1
           /\ deterministic <= slept
           /\ slept <= deterministic + TicksPerSecond

\* The fourth attempt failed at network level after a 5xx on the third: the
\* sleep is 8 seconds and the full jitter.
C23_Witness ==
    /\ attempt = 4
    /\ Last(hist) = NetworkError
    /\ IsServerError(hist[3])
    /\ slept = 8 * base_backoff * TicksPerSecond + TicksPerSecond

(***************************************************************************)
(* The paginated fetcher: get_issues, _get_issues_v3_jql,                  *)
(* _get_issues_v3_search, _get_issue_detail.  A call of                    *)
(* _make_request_with_retry is one step here: it returns a response or     *)
(* raises (SpecExec).                                                      *)
(***************************************************************************)

Min(a, b) == IF a < b THEN a ELSE b

\* Issues the server knows, and a page entry without 'id' (line 135 raises).
IssueIds == {"A", "B"}
NoId == "noid"
SeqsUpTo(S, n) == UNION {[1..k -> S] : k \in 0..n}

\* A page of the token endpoint: data['issues'], data.get('isLast'),
\* data.get('nextPageToken').  The server is asked for n issues and sends
\* any number of them up to n, or one more.
JqlPages(n) ==
    [issues : SeqsUpTo(IssueIds \cup {NoId}, n + 1),
     isLast : {"absent", "true", "false"},
     nextPageToken : {"", "t1", "t2"},
     total : {0}]

\* A page of the offset endpoint: data['issues'], data.get('total', 0).
SearchPages(n) ==
    [issues : SeqsUpTo(IssueIds, n + 1),
     isLast : {"absent"},
     nextPageToken : {""},
     total : 0..(MaxResults + 1)]

NoData == [issues |-> <<>>, isLast |-> "absent", nextPageToken |-> "", total |-> 0]
NoParams == [endpoint |-> "none", maxResults |-> 0, nextPageToken |-> "",
             startAt |-> 0, collected |-> 0]

\* data.get('isLast', True) or not data.get('nextPageToken'), line 140.
LastPage(d) == d.isLast # "false" \/ d.nextPageToken = ""

\* The page size without the cap of 100.
page_size_uncapped(collected) == max_results - collected

\* min(max_results - len(issues), 100), lines 121 and 157.
page_size(collected) == Min(max_results - collected, page_limit)

FetchInit(caps) ==
    /\ max_results \in caps
    /\ fpc = "call"
    /\ issues_jql = <<>>
    /\ next_page_token = ""
    /\ data = NoData
    /\ idx = 0
    /\ issues_search = <<>>
    /\ start_at = 0
    /\ returned = <<>>
    /\ params = NoParams
    /\ jqlRaised = "no"
    /\ discarded = <<>>
    /\ searchCalls = 0
    /\ servedSearch = <<>>
    /\ okEntries = <<>>
    /\ lastDetail = "none"
    /\ failedBefore = "no"

\* No executor call has been made.
CallInit ==
    /\ listCalls = 0
    /\ detailCalls = 0

\* get_issues calls _get_issues_v3_jql (line 106), which starts empty.
get_issues ==
    /\ UNCHANGED <<execVars, replayVars, extractVars, callVars>>
    /\ fpc = "call"
    /\ fpc' = "jql_while"
    /\ issues_jql' = <<>>
    /\ next_page_token' = ""
    /\ UNCHANGED <<max_results, data, idx, issues_search, start_at, returned,
                   params, jqlRaised, discarded, searchCalls, servedSearch,
                   okEntries, lastDetail, failedBefore>>

\* _get_issues_v3_jql raises: its frame, and the list in it, are gone.
JqlRaise(what) ==
    /\ jqlRaised' = what
    /\ discarded' = issues_jql
    /\ issues_jql' = <<>>
    /\ next_page_token' = ""
    /\ data' = NoData
    /\ idx' = 0
    /\ okEntries' = <<>>
    /\ failedBefore' = "no"

\* A fallback that goes on from what the token strategy had collected.
FallbackKeepsPartial ==
    /\ fpc' = "search_while"
    /\ issues_search' = issues_jql
    /\ start_at' = Len(issues_jql)
    /\ searchCalls' = searchCalls + 1
    /\ servedSearch' = <<>>

\* except Exception (lines 107..109): _get_issues_v3_search is called and
\* starts with an empty list at offset 0 (lines 151, 152).
Fallback ==
    /\ fpc' = "search_while"
    /\ issues_search' = <<>>
    /\ start_at' = 0
    /\ searchCalls' = searchCalls + 1
    /\ servedSearch' = <<>>

\* return issues (line 145), handed on by line 106.
JqlReturn ==
    /\ fpc' = "done"
    /\ returned' = issues_jql

\* while len(issues) < max_results fails: line 145.
jql_while_exit ==
    /\ UNCHANGED <<execVars, replayVars, extractVars, callVars>>
    /\ fpc = "jql_while"
    /\ ~(Len(issues_jql) < max_results)
    /\ JqlReturn
    /\ UNCHANGED <<max_results, issues_jql, next_page_token, data, idx,
                   issues_search, start_at, params, jqlRaised, discarded,
                   searchCalls, servedSearch, okEntries, lastDetail,
                   failedBefore>>

\* Lines 119..131: one page request of the token strategy.  The executor
\* raises (or the body is no JSON), or a page comes back: `executor` is
\* what it may do ("raises", "returns"), `pages` what the server may send.
JqlPage(executor, pages) ==
    /\ fpc = "jql_while"
    /\ Len(issues_jql) < max_results
    /\ params' = [endpoint |-> "jql",
                  maxResults |-> page_size(Len(issues_jql)),
                  nextPageToken |-> next_page_token,
                  startAt |-> 0,
                  collected |-> Len(issues_jql)]
    /\ lastDetail' = "none"
    /\ \/ "raises" \in executor /\ JqlRaise("list") /\ Fallback
       \/ /\ "returns" \in executor
          /\ \E d \in pages :
               /\ data' = d
               /\ idx' = 1
               /\ fpc' = "jql_for"
               /\ UNCHANGED <<jqlRaised, discarded, issues_jql,
                              next_page_token, okEntries, failedBefore,
                              issues_search, start_at, searchCalls,
                              servedSearch>>
    /\ UNCHANGED <<max_results, returned>>

jql_page ==
    /\ UNCHANGED <<execVars, replayVars, extractVars, callVars>>
    /\ JqlPage({"raises", "returns"}, JqlPages(page_size(Len(issues_jql))))

\* _get_issue_detail without its try/except: a failed fetch raises.
jql_detail_unguarded ==
    /\ UNCHANGED <<execVars, replayVars, extractVars, callVars>>
    /\ fpc = "jql_for"
    /\ idx <= Len(data.issues)
    /\ LET issue_summary == data.issues[idx] IN
       IF issue_summary = NoId
       THEN JqlRaise("entry") /\ Fallback /\ lastDetail' = "none"
       ELSE \/ /\ lastDetail' = "ok"
               /\ issues_jql' = Append(issues_jql, issue_summary)
               /\ okEntries' = Append(okEntries, issue_summary)
               /\ failedBefore' = IF failedBefore = "no" THEN "no" ELSE "ok after"
               /\ idx' = idx + 1
               /\ UNCHANGED <<fpc, jqlRaised, discarded, next_page_token, data,
                              issues_search, start_at, searchCalls,
                              servedSearch>>
            \/ /\ lastDetail' = "failed"
               /\ JqlRaise("detail")
               /\ Fallback
    /\ UNCHANGED <<max_results, returned, params>>

\* Lines 134..138 for one page entry: issue_summary['id'], then
\* _get_issue_detail (lines 175..188), which returns the issue or, when the
\* executor raises, None; the issue is appended when it is not None.
\* `executor` is what the executor may do ("raises", "returns").
JqlDetail(executor) ==
    /\ fpc = "jql_for"
    /\ idx <= Len(data.issues)
    /\ LET issue_summary == data.issues[idx] IN
       IF issue_summary = NoId
       THEN \* KeyError: _get_issues_v3_jql raises, get_issues falls back
            JqlRaise("entry") /\ Fallback /\ lastDetail' = "none"
       ELSE /\ idx' = idx + 1
            /\ \/ /\ "returns" \in executor
                  /\ lastDetail' = "ok"
                  /\ issues_jql' = Append(issues_jql, issue_summary)
                  /\ okEntries' = Append(okEntries, issue_summary)
                  /\ failedBefore' = IF failedBefore = "no" THEN "no"
                                     ELSE "ok after"
               \/ /\ "raises" \in executor
                  /\ lastDetail' = "failed"
                  /\ failedBefore' = "yes"
                  /\ UNCHANGED <<issues_jql, okEntries>>
            /\ UNCHANGED <<fpc, jqlRaised, discarded, next_page_token, data,
                           issues_search, start_at, searchCalls, servedSearch>>
    /\ UNCHANGED <<max_results, returned, params>>

jql_detail ==
    /\ UNCHANGED <<execVars, replayVars, extractVars, callVars>>
    /\ JqlDetail({"raises", "returns"})

\* Lines 140..143, after the last entry of the page.
jql_page_end ==
    /\ UNCHANGED <<execVars, replayVars, extractVars, callVars>>
    /\ fpc = "jql_for"
    /\ idx > Len(data.issues)
    /\ IF LastPage(data)
       THEN JqlReturn /\ UNCHANGED next_page_token
       ELSE /\ next_page_token' = data.nextPageToken
            /\ fpc' = "jql_while"
            /\ UNCHANGED returned
    /\ UNCHANGED <<max_results, issues_jql, data, idx, issues_search, start_at,
                   params, jqlRaised, discarded, searchCalls, servedSearch,
                   okEntries, lastDetail, failedBefore>>

\* while len(issues) < max_results fails: line 173, handed on by line 109.
search_while_exit ==
    /\ UNCHANGED <<execVars, replayVars, extractVars, callVars>>
    /\ fpc = "search_while"
    /\ ~(Len(issues_search) < max_results)
    /\ fpc' = "done"
    /\ returned' = issues_search
    /\ UNCHANGED <<max_results, issues_jql, next_page_token, data, idx,
                   issues_search, start_at, params, jqlRaised, discarded,
                   searchCalls, servedSearch, okEntries, lastDetail,
                   failedBefore>>

\* The page request with line 171 as start_at += params['maxResults'].
search_page_offset_by_request ==
    /\ UNCHANGED <<execVars, replayVars, extractVars, callVars>>
    /\ fpc = "search_while"
    /\ Len(issues_search) < max_results
    /\ params' = [endpoint |-> "search",
                  maxResults |-> page_size(Len(issues_search)),
                  nextPageToken |-> "",
                  startAt |-> start_at,
                  collected |-> Len(issues_search)]
    /\ \/ /\ fpc' = "raised"
          /\ UNCHANGED <<data, issues_search, start_at, returned,
                         servedSearch>>
       \/ \E d \in SearchPages(page_size(Len(issues_search))) :
            LET issues == issues_search \o d.issues IN
            /\ data' = d
            /\ issues_search' = issues
            /\ servedSearch' = servedSearch \o d.issues
            /\ IF Len(d.issues) = 0 \/ d.total <= Len(issues)
               THEN /\ fpc' = "done"
                    /\ returned' = issues
                    /\ UNCHANGED start_at
               ELSE /\ start_at' = start_at + page_size(Len(issues_search))
                    /\ fpc' = "search_while"
                    /\ UNCHANGED returned
    /\ UNCHANGED <<max_results, issues_jql, next_page_token, idx, jqlRaised,
                   discarded, searchCalls, okEntries, lastDetail, failedBefore>>

\* Lines 155..171: one page request of the offset strategy.  The executor
\* raises, and so does get_issues, or a page comes back and is appended.
search_page ==
    /\ UNCHANGED <<execVars, replayVars, extractVars, callVars>>
    /\ fpc = "search_while"
    /\ Len(issues_search) < max_results
    /\ params' = [endpoint |-> "search",
                  maxResults |-> page_size(Len(issues_search)),
                  nextPageToken |-> "",
                  startAt |-> start_at,
                  collected |-> Len(issues_search)]
    /\ \/ /\ fpc' = "raised"
          /\ UNCHANGED <<data, issues_search, start_at, returned,
                         servedSearch>>
       \/ \E d \in SearchPages(page_size(Len(issues_search))) :
            LET issues == issues_search \o d.issues IN
            /\ data' = d
            /\ issues_search' = issues
            /\ servedSearch' = servedSearch \o d.issues
            /\ IF Len(d.issues) = 0 \/ d.total <= Len(issues)
               THEN /\ fpc' = "done"
                    /\ returned' = issues
                    /\ UNCHANGED start_at
               ELSE /\ start_at' = start_at + Len(d.issues)
                    /\ fpc' = "search_while"
                    /\ UNCHANGED returned
    /\ UNCHANGED <<max_results, issues_jql, next_page_token, idx, jqlRaised,
                   discarded, searchCalls, okEntries, lastDetail, failedBefore>>

\* A server that fills the page: exactly the n issues asked for, with any
\* last-page signal and with or without a token.
FullPages(n) ==
    [issues : {[k \in 1..n |-> "A"]},
     isLast : {"absent", "true", "false"},
     nextPageToken : {"", "t1"},
     total : {0}]

\* The page request of line 125 when no request fails and the server fills
\* the page: one call of the executor.
jql_page_full ==
    /\ UNCHANGED <<execVars, replayVars, extractVars>>
    /\ JqlPage({"returns"}, FullPages(page_size(Len(issues_jql))))
    /\ listCalls' = listCalls + 1
    /\ UNCHANGED detailCalls

\* The detail request of line 183 when no request fails: one call of the
\* executor.
jql_detail_ok ==
    /\ UNCHANGED <<execVars, replayVars, extractVars>>
    /\ JqlDetail({"returns"})
    /\ detailCalls' = detailCalls + 1
    /\ UNCHANGED listCalls

FullNext ==
    \/ get_issues
    \/ jql_while_exit
    \/ jql_page_full
    \/ jql_detail_ok
    \/ jql_page_end

FetchNext ==
    \/ get_issues
    \/ jql_while_exit
    \/ jql_page
    \/ jql_detail
    \/ jql_page_end
    \/ search_while_exit
    \/ search_page

(***************************************************************************)
(* Properties of the fetcher.                                              *)
(***************************************************************************)

\* C7 (as claimed): every page request asks for min(max_results - collected,
\* 100) issues, and the list get_issues returns is never longer than
\* max_results, whatever pages the server sends, in both strategies.
C7_NeverMoreThanMaxResults ==
    /\ params.endpoint # "none"
          => params.maxResults = Min(max_results - params.collected, page_limit)
    /\ fpc = "done" => Len(returned) <= max_results

\* C8: the offset strategy runs if and only if the token strategy raised,
\* and then once; it starts from an empty list at offset 0 and its list is
\* at every moment what the offset endpoint served, nothing of what the token
\* strategy had collected; that list is what get_issues returns.
C8_FallbackIsOffsetAlone ==
    /\ (searchCalls = 0) <=> (jqlRaised = "no")
    /\ searchCalls <= 1
    /\ fpc \in {"search_while", "raised"} => jqlRaised # "no"
    /\ jqlRaised # "no" =>
          /\ issues_search = servedSearch
          /\ start_at <= Len(servedSearch)
          /\ params.endpoint = "search" =>
                (params.startAt = params.collected
                    /\ params.collected <= Len(servedSearch))
          /\ fpc = "done" => returned = servedSearch

\* The token strategy raised in the middle of a page, with issues collected;
\* the offset strategy returned other issues.
C8_Witness ==
    /\ fpc = "done"
    /\ jqlRaised = "entry"
    /\ discarded = <<"A">>
    /\ returned = <<"B", "B">>
    /\ params.startAt = 1

\* C9: a failed detail fetch never makes the token strategy raise; the loop
\* goes on after it; the strategy's list is at every moment the entries
\* whose detail fetch succeeded, in the order served, and that is what
\* get_issues returns when the strategy does not raise.
C9_DetailFailureIsSkipped ==
    /\ jqlRaised # "detail"
    /\ lastDetail = "failed" =>
          (jqlRaised = "no" /\ fpc \in {"jql_for", "jql_while", "done"})
    /\ fpc \in {"jql_for", "jql_while"} => issues_jql = okEntries
    /\ (fpc = "done" /\ jqlRaised = "no") => returned = okEntries

\* A detail fetch failed, a later entry of the page and an entry of a later
\* page were fetched, and both are returned.
C9_Witness ==
    /\ fpc = "done"
    /\ jqlRaised = "no"
    /\ failedBefore = "ok after"
    /\ params.nextPageToken = "t1"
    /\ returned = <<"B", "A">>

(***************************************************************************)
(* The changelog replay: parse_datetime and calculate_cycle_time.          *)
(*                                                                         *)
(* A timestamp string is [local, off, form]: the local date and time it    *)
(* spells (in hours), the UTC offset it spells, and its form:              *)
(*   "iso"   2024-01-01T10:00:00.000+0100  one of the strptime formats     *)
(*   "short" 2024-01-01T10:00+01:00        no strptime format, has a '+'   *)
(*   "notz"  2024-01-01T10:00:00           no strptime format, no zone     *)
(*   "bad"   text that is no date                                          *)
(*   "none"  no string: None, or the key is absent                         *)
(***************************************************************************)
Stamp(l, o, f) == [local |-> l, off |-> o, form |-> f]
NoDate == Stamp(0, 0, "none")
BadDate == Stamp(0, 0, "bad")

\* A datetime: aware (t is the instant, in UTC) or naive (t is the wall time).
Aware(t, o) == [kind |-> "aware", t |-> t, off |-> o]
Naive(t) == [kind |-> "naive", t |-> t, off |-> 0]
ParseError == [kind |-> "ValueError", t |-> 0, off |-> 0]

\* parse_datetime (lines 190..205): strptime with %z gives an aware
\* datetime; the fallback cuts the string at '+' and fromisoformat gives a
\* naive one, or raises ValueError.
parse_datetime(date_str) ==
    CASE date_str.form = "iso" -> Aware(date_str.local - date_str.off, date_str.off)
      [] date_str.form = "short" -> Naive(date_str.local)
      [] date_str.form = "notz" -> Naive(date_str.local)
      [] OTHER -> ParseError

\* The order of Python's str on the timestamp strings: first the date and
\* time spelled, then what follows it ('+' sorts before ':', a string before
\* its extensions, "+0000" before "+0100"); text that is no date comes last.
FormRank(ts) ==
    CASE ts.form = "short" -> 0
      [] ts.form = "notz" -> 1
      [] ts.form = "iso" -> 2 + ts.off
      [] OTHER -> 0
StrLess(a, b) ==
    IF a.form = "bad" THEN FALSE
    ELSE IF b.form = "bad" THEN TRUE
    ELSE \/ a.local < b.local
         \/ a.local = b.local /\ FormRank(a) < FormRank(b)

\* sorted(histories, key=lambda x: x['created']), line 228: a stable sort
\* by the timestamp string.
RECURSIVE InsertSorted(_, _)
InsertSorted(h, sorted) ==
    IF sorted = <<>> THEN <<h>>
    ELSE IF StrLess(h.created, Head(sorted).created)
         THEN <<h>> \o sorted
         ELSE <<Head(sorted)>> \o InsertSorted(h, Tail(sorted))
\* The histories walked in the order received.
UnsortedHistories(hs) == hs
RECURSIVE SortedByCreated(_)
SortedByCreated(hs) ==
    IF hs = <<>> THEN <<>>
    ELSE InsertSorted(hs[Len(hs)], SortedByCreated(SubSeq(hs, 1, Len(hs) - 1)))

\* An item of a history counts as a status change whatever its field.
IsStatusItemAnyField(item) == TRUE
\* item['field'] == 'status', line 232.
IsStatusItem(item) == item.field = "status"

\* Lines 231..240 for one history: its status items, dated change_date.
RECURSIVE ItemChanges(_, _)
ItemChanges(items, change_date) ==
    IF items = <<>> THEN <<>>
    ELSE (IF IsStatusItem(Head(items))
          THEN <<[date |-> change_date,
                  from_status |-> Head(items).fromString,
                  to_status |-> Head(items).toString]>>
          ELSE <<>>) \o ItemChanges(Tail(items), change_date)

\* Lines 228..240: status_changes, from the histories in sorted order.
RECURSIVE StatusChanges(_)
StatusChanges(sorted) ==
    IF sorted = <<>> THEN <<>>
    ELSE ItemChanges(Head(sorted).items, parse_datetime(Head(sorted).created))
            \o StatusChanges(Tail(sorted))

\* What calculate_cycle_time returns, or the exception it raises.
Returned(total, periods) == [kind |-> "returned", total |-> total, periods |-> periods]
Raised(e) == [kind |-> e, total |-> 0, periods |-> <<>>]
NotCalled == [kind |-> "not called", total |-> 0, periods |-> <<>>]

\* a - b on datetimes, in hours (.total_seconds() / 3600): an aware and a
\* naive datetime cannot be subtracted (TypeError).
CanSubtract(a, b) == a.kind = b.kind
Hours(a, b) == a.t - b.t

NoStart == [kind |-> "None", t |-> 0, off |-> 0]

\* The walk with line 271 as an elif: an event that closes a period does not
\* open one.
RECURSIVE WalkElif(_, _, _, _, _, _)
WalkElif(changes, i, cts, start, total, periods) ==
    IF i > Len(changes)
    THEN [kind |-> "walked", start |-> start, total |-> total, periods |-> periods]
    ELSE LET change == changes[i]
             leaving == change.from_status \in cts /\ start.kind # "None"
         IN IF leaving /\ ~CanSubtract(change.date, start)
            THEN [kind |-> "TypeError", start |-> start, total |-> total,
                  periods |-> periods]
            ELSE IF leaving
            THEN WalkElif(changes, i + 1, cts, NoStart,
                          total + Hours(change.date, start),
                          Append(periods,
                                 [status |-> change.from_status,
                                  start |-> start,
                                  end |-> change.date,
                                  duration_hours |-> Hours(change.date, start)]))
            ELSE WalkElif(changes, i + 1, cts,
                          IF change.to_status \in cts THEN change.date ELSE start,
                          total, periods)

\* The walk without line 259: a closed period is not added to the total.
RECURSIVE WalkForgetsTotal(_, _, _, _, _, _)
WalkForgetsTotal(changes, i, cts, start, total, periods) ==
    IF i > Len(changes)
    THEN [kind |-> "walked", start |-> start, total |-> total, periods |-> periods]
    ELSE LET change == changes[i]
             leaving == change.from_status \in cts /\ start.kind # "None"
         IN IF leaving /\ ~CanSubtract(change.date, start)
            THEN [kind |-> "TypeError", start |-> start, total |-> total,
                  periods |-> periods]
            ELSE LET periods1 == IF leaving
                                 THEN Append(periods,
                                             [status |-> change.from_status,
                                              start |-> start,
                                              end |-> change.date,
                                              duration_hours |-> Hours(change.date, start)])
                                 ELSE periods
                     start1 == IF leaving THEN NoStart ELSE start
                     start2 == IF change.to_status \in cts
                               THEN change.date ELSE start1
                 IN WalkForgetsTotal(changes, i + 1, cts, start2, total, periods1)

\* Lines 251..272: the walk over status_changes from position i, with the
\* running current_cycle_start, total_cycle_time and status_periods.
RECURSIVE Walk(_, _, _, _, _, _)
Walk(changes, i, cts, start, total, periods) ==
    IF i > Len(changes)
    THEN [kind |-> "walked", start |-> start, total |-> total, periods |-> periods]
    ELSE LET change == changes[i]
             leaving == change.from_status \in cts /\ start.kind # "None"
         IN IF leaving /\ ~CanSubtract(change.date, start)
            THEN [kind |-> "TypeError", start |-> start, total |-> total,
                  periods |-> periods]
            ELSE LET duration == IF leaving THEN Hours(change.date, start) ELSE 0
                     total1 == IF leaving THEN total + duration ELSE total
                     periods1 == IF leaving
                                 THEN Append(periods,
                                             [status |-> change.from_status,
                                              start |-> start,
                                              end |-> change.date,
                                              duration_hours |-> duration])
                                 ELSE periods
                     start1 == IF leaving THEN NoStart ELSE start
                     start2 == IF change.to_status \in cts
                               THEN change.date ELSE start1
                 IN Walk(changes, i + 1, cts, start2, total1, periods1)

\* datetime.now(tz), line 277: aware when tz is given, naive otherwise.
datetime_now(clock, like) ==
    IF like.kind = "aware" THEN Aware(clock, like.off) ELSE Naive(clock)

\* calculate_cycle_time without lines 278..279: the final period always
\* ends at the clock.
calculate_cycle_time_ends_now(iss, cts, clock) ==
    IF iss.histories = <<>>
    THEN Returned(0, <<>>)
    ELSE
    LET created_date == parse_datetime(iss.created)
        sorted == SortedByCreated(iss.histories)
        status_changes == StatusChanges(sorted)
        first_start == IF status_changes # <<>>
                          /\ status_changes[1].to_status \in cts
                       THEN created_date ELSE NoStart
        walked == Walk(status_changes, 1, cts, first_start, 0, <<>>)
        end_date == datetime_now(clock, walked.start)
    IN  IF created_date = ParseError
           \/ \E k \in 1..Len(sorted) : parse_datetime(sorted[k].created) = ParseError
        THEN Raised("ValueError")
        ELSE IF walked.kind = "TypeError"
        THEN Raised("TypeError")
        ELSE IF iss.status \in cts /\ walked.start.kind # "None"
        THEN Returned(walked.total + Hours(end_date, walked.start),
                      Append(walked.periods,
                             [status |-> iss.status,
                              start |-> walked.start,
                              end |-> end_date,
                              duration_hours |-> Hours(end_date, walked.start)]))
        ELSE Returned(walked.total, walked.periods)

\* calculate_cycle_time with line 276 as `if current_cycle_start:`.
calculate_cycle_time_any_status(iss, cts, clock) ==
    IF iss.histories = <<>>
    THEN Returned(0, <<>>)
    ELSE
    LET created_date == parse_datetime(iss.created)
        sorted == SortedByCreated(iss.histories)
        status_changes == StatusChanges(sorted)
        first_start == IF status_changes # <<>>
                          /\ status_changes[1].to_status \in cts
                       THEN created_date ELSE NoStart
        walked == Walk(status_changes, 1, cts, first_start, 0, <<>>)
        current_status == iss.status
        end_date == IF iss.resolutiondate.form # "none"
                    THEN parse_datetime(iss.resolutiondate)
                    ELSE datetime_now(clock, walked.start)
    IN  IF created_date = ParseError
           \/ \E k \in 1..Len(sorted) : parse_datetime(sorted[k].created) = ParseError
        THEN Raised("ValueError")
        ELSE IF walked.kind = "TypeError"
        THEN Raised("TypeError")
        ELSE IF walked.start.kind # "None"
        THEN IF end_date = ParseError
             THEN Raised("ValueError")
             ELSE IF ~CanSubtract(end_date, walked.start)
             THEN Raised("TypeError")
             ELSE LET duration == Hours(end_date, walked.start)
                  IN Returned(walked.total + duration,
                              Append(walked.periods,
                                     [status |-> current_status,
                                      start |-> walked.start,
                                      end |-> end_date,
                                      duration_hours |-> duration]))
        ELSE Returned(walked.total, walked.periods)

\* calculate_cycle_time (lines 207..291).
calculate_cycle_time(iss, cts, clock) ==
    IF iss.histories = <<>>
    THEN Returned(0, <<>>)
    ELSE
    LET created_date == parse_datetime(iss.created)
        sorted == SortedByCreated(iss.histories)
        status_changes == StatusChanges(sorted)
        first_start == IF status_changes # <<>>
                          /\ status_changes[1].to_status \in cts
                       THEN created_date ELSE NoStart
        walked == Walk(status_changes, 1, cts, first_start, 0, <<>>)
        current_status == iss.status
        end_date == IF iss.resolutiondate.form # "none"
                    THEN parse_datetime(iss.resolutiondate)
                    ELSE datetime_now(clock, walked.start)
    IN  IF created_date = ParseError
           \/ \E k \in 1..Len(sorted) : parse_datetime(sorted[k].created) = ParseError
        THEN Raised("ValueError")
        ELSE IF walked.kind = "TypeError"
        THEN Raised("TypeError")
        ELSE IF current_status \in cts /\ walked.start.kind # "None"
        THEN IF end_date = ParseError
             THEN Raised("ValueError")
             ELSE IF ~CanSubtract(end_date, walked.start)
             THEN Raised("TypeError")
             ELSE LET duration == Hours(end_date, walked.start)
                  IN Returned(walked.total + duration,
                              Append(walked.periods,
                                     [status |-> current_status,
                                      start |-> walked.start,
                                      end |-> end_date,
                                      duration_hours |-> duration]))
        ELSE Returned(walked.total, walked.periods)

\* The inputs of the replay: statuses, items, timestamps, issues.
StatusNames == {"Backlog", "Doing", "Review"}
default_cycle_time_statuses == {"Doing", "Blocked", "Review", "In Progress", "In Review"}
CycleSets == {default_cycle_time_statuses, {"Doing"}}
Items ==
    [field : {"status"}, fromString : StatusNames, toString : StatusNames]
        \cup {[field |-> "Stage", fromString |-> "Doing", toString |-> "Doing"]}
Stamps ==
    {Stamp(l, o, "iso") : l \in 1..MaxTime, o \in {0, 1}}
        \cup {Stamp(l, 1, "short") : l \in 1..MaxTime}
        \cup {Stamp(l, 0, "notz") : l \in 1..MaxTime}
        \cup {BadDate}
Histories == [created : Stamps, items : {<<item>> : item \in Items}]
Issues ==
    [created : Stamps,
     resolutiondate : Stamps \cup {NoDate},
     status : StatusNames,
     histories : SeqsUpTo(Histories, MaxHist)]

Called == out.kind # "not called"

\* No issue yet: the record stands for None.
NoIssue == [created |-> NoDate, resolutiondate |-> NoDate, status |-> "Backlog",
            histories |-> <<>>]

ReplayInit(clocks) ==
    /\ cycle_time_statuses = default_cycle_time_statuses
    /\ issue = NoIssue
    /\ now \in clocks
    /\ out = NotCalled
    /\ before = NotCalled
    /\ between = {}

\* set_cycle_time_statuses (lines 40..42), before the replay.
set_cycle_time_statuses ==
    /\ UNCHANGED <<execVars, fetchVars, extractVars, callVars>>
    /\ out = NotCalled
    /\ \E statuses \in CycleSets :
        /\ statuses # cycle_time_statuses
        /\ cycle_time_statuses' = statuses
    /\ UNCHANGED <<issue, now, out, before, between>>

\* One call of calculate_cycle_time, on any issue.
replay ==
    /\ UNCHANGED <<execVars, fetchVars, extractVars, callVars>>
    /\ out = NotCalled
    /\ \E iss \in Issues :
        /\ issue' = iss
        /\ out' = calculate_cycle_time(iss, cycle_time_statuses, now)
    /\ UNCHANGED <<cycle_time_statuses, now, before, between>>

ReplayNext == set_cycle_time_statuses \/ replay

\* Issues as the tracker serves them: every timestamp in the first strptime
\* format with offset +0000, up to MaxEvents history entries in any order.
TimelineStamps == {Stamp(l, 0, "iso") : l \in 1..MaxHour}
TimelineHistories == [created : TimelineStamps, items : {<<item>> : item \in Items}]
TimelineIssues ==
    [created : TimelineStamps,
     resolutiondate : TimelineStamps \cup {NoDate},
     status : StatusNames,
     histories : SeqsUpTo(TimelineHistories, MaxEvents)]

\* One call of calculate_cycle_time, on any such issue.
replay_timeline ==
    /\ UNCHANGED <<execVars, fetchVars, extractVars, callVars>>
    /\ out = NotCalled
    /\ \E iss \in TimelineIssues :
        /\ issue' = iss
        /\ out' = calculate_cycle_time(iss, cycle_time_statuses, now)
    /\ UNCHANGED <<cycle_time_statuses, now, before, between>>

TimelineNext == set_cycle_time_statuses \/ replay_timeline

\* Issues whose changelog is a chain: up to MaxChain status changes, each
\* from the status the one before went to, at hours that do not decrease,
\* served oldest first or newest first.
Reverse(q) == [k \in 1..Len(q) |-> q[Len(q) + 1 - k]]
ChainHistories(statuses, hours) ==
    [k \in 1..Len(hours) |->
        [created |-> Stamp(hours[k], 0, "iso"),
         items |-> <<[field |-> "status",
                      fromString |-> statuses[k],
                      toString |-> statuses[k + 1]]>>]]
NonDecreasing(hours) ==
    \A k \in 1..(Len(hours) - 1) : hours[k] <= hours[k + 1]
ChainChangelogs ==
    UNION {{ChainHistories(statuses, hours) :
                statuses \in [1..(n + 1) -> StatusNames],
                hours \in {h \in [1..n -> 1..MaxChain] : NonDecreasing(h)}} :
           n \in 1..MaxChain}
ChainIssue(c, r, st, hs) ==
    [created |-> Stamp(c, 0, "iso"), resolutiondate |-> r, status |-> st,
     histories |-> hs]

\* One call of calculate_cycle_time, on any such issue.
replay_chain ==
    /\ UNCHANGED <<execVars, fetchVars, extractVars, callVars>>
    /\ out = NotCalled
    /\ \E c \in 0..MaxChain, r \in {NoDate, Stamp(MaxChain, 0, "iso")},
          st \in StatusNames, q \in ChainChangelogs, newest_first \in BOOLEAN :
        LET iss == ChainIssue(c, r, st, IF newest_first THEN Reverse(q) ELSE q)
        IN /\ issue' = iss
           /\ out' = calculate_cycle_time(iss, cycle_time_statuses, now)
    /\ UNCHANGED <<cycle_time_statuses, now, before, between>>

ChainNext == set_cycle_time_statuses \/ replay_chain

\* Issues whose timestamps carry different timezone offsets: every one in
\* the first strptime format, with offset +0000 or +0100, and two history
\* entries in any order.
ZoneOffsets == {0, 1}
ZoneStamps == {Stamp(l, o, "iso") : l \in 1..MaxZoneHour, o \in ZoneOffsets}

\* One call of calculate_cycle_time, on any such issue.
replay_zones ==
    /\ UNCHANGED <<execVars, fetchVars, extractVars, callVars>>
    /\ out = NotCalled
    /\ \E c \in ZoneStamps, r \in ZoneStamps \cup {NoDate}, st \in StatusNames,
          c1 \in ZoneStamps, c2 \in ZoneStamps, i1 \in Items, i2 \in Items :
        LET iss == [created |-> c, resolutiondate |-> r, status |-> st,
                    histories |-> <<[created |-> c1, items |-> <<i1>>],
                                    [created |-> c2, items |-> <<i2>>]>>]
        IN /\ issue' = iss
           /\ out' = calculate_cycle_time(iss, cycle_time_statuses, now)
    /\ UNCHANGED <<cycle_time_statuses, now, before, between>>

ZonesNext == set_cycle_time_statuses \/ replay_zones

\* Two calls on one issue.  The issues: well-formed timestamps, up to
\* MaxHist history entries.
ShortIssues ==
    [created : TimelineStamps,
     resolutiondate : TimelineStamps \cup {NoDate},
     status : StatusNames,
     histories : SeqsUpTo(TimelineHistories, MaxHist)]

\* The first call of calculate_cycle_time on an issue.
replay_short ==
    /\ UNCHANGED <<execVars, fetchVars, extractVars, callVars>>
    /\ out = NotCalled
    /\ \E iss \in ShortIssues :
        /\ issue' = iss
        /\ out' = calculate_cycle_time(iss, cycle_time_statuses, now)
    /\ UNCHANGED <<cycle_time_statuses, now, before, between>>

\* The clock advances between the two calls.
tick ==
    /\ UNCHANGED <<execVars, fetchVars, extractVars, callVars>>
    /\ Called
    /\ before = NotCalled
    /\ now < MaxHour + 1 + MaxTicks
    /\ now' = now + 1
    /\ between' = between \cup {"clock"}
    /\ UNCHANGED <<cycle_time_statuses, issue, out, before>>

\* Another issue is replayed between the two calls (one with the same
\* changelog, in another status or resolved at another time): the call reads
\* self.cycle_time_statuses and its argument and assigns no attribute.
replay_other ==
    /\ UNCHANGED <<execVars, fetchVars, extractVars, callVars>>
    /\ Called
    /\ before = NotCalled
    /\ "other" \notin between
    /\ \E st \in StatusNames, r \in TimelineStamps \cup {NoDate} :
        LET other == [issue EXCEPT !.status = st, !.resolutiondate = r]
        IN
        /\ other # issue
        /\ calculate_cycle_time(other, cycle_time_statuses, now).kind # "not called"
    /\ between' = between \cup {"other"}
    /\ UNCHANGED <<cycle_time_statuses, issue, now, out, before>>

\* The second call of calculate_cycle_time, on the same issue.
replay_again ==
    /\ UNCHANGED <<execVars, fetchVars, extractVars, callVars>>
    /\ Called
    /\ before = NotCalled
    /\ before' = out
    /\ out' = calculate_cycle_time(issue, cycle_time_statuses, now)
    /\ UNCHANGED <<cycle_time_statuses, issue, now, between>>

TwiceNext ==
    set_cycle_time_statuses \/ replay_short \/ tick \/ replay_other \/ replay_again

(***************************************************************************)
(* extract_metrics (lines 293..321): get_issues, then one record per       *)
(* issue.  The issues fetched are the ids of the fetcher, each standing    *)
(* for the issue the server holds under it.                                *)
(***************************************************************************)
Entry(hour, from, to) ==
    [created |-> Stamp(hour, 0, "iso"),
     items |-> <<[field |-> "status", fromString |-> from, toString |-> to]>>]
\* An issue in Doing since its only status change, one without changelog,
\* and one whose created cannot be parsed.
SampleIssues ==
    {[created |-> Stamp(1, 0, "iso"), resolutiondate |-> NoDate, status |-> "Doing",
      histories |-> <<Entry(1, "Backlog", "Doing")>>],
     [created |-> Stamp(1, 0, "iso"), resolutiondate |-> NoDate, status |-> "Backlog",
      histories |-> <<>>],
     [created |-> BadDate, resolutiondate |-> NoDate, status |-> "Doing",
      histories |-> <<Entry(1, "Backlog", "Doing")>>]}
Trackers == [IssueIds -> SampleIssues]

\* Issues whose replay returns a positive, a zero and a negative total: one
\* in Doing since hour 1, one without changelog, and one in Backlog created
\* at hour 2 whose only status change, Doing -> Doing, is dated hour 1.
DaySamples ==
    {[created |-> Stamp(1, 0, "iso"), resolutiondate |-> NoDate, status |-> "Doing",
      histories |-> <<Entry(1, "Backlog", "Doing")>>],
     [created |-> Stamp(1, 0, "iso"), resolutiondate |-> NoDate, status |-> "Backlog",
      histories |-> <<>>],
     [created |-> Stamp(2, 0, "iso"), resolutiondate |-> NoDate, status |-> "Backlog",
      histories |-> <<Entry(1, "Doing", "Doing")>>]}
DayTrackers == [IssueIds -> DaySamples]
ATracker == [id \in IssueIds |-> NoIssue]

ExtractInit(trackers) ==
    /\ tracker \in trackers
    /\ epc = "fetch"
    /\ metrics = <<>>
    /\ pos = 0

\* cycle_time / 24 if cycle_time > 0 else 0 (line 317), in twenty-fourths of
\* a day: hours / 24 is no integer.
cycle_time_days(cycle_time) == IF cycle_time > 0 THEN cycle_time ELSE 0

\* The record of lines 307..319.
Record(key, iss, replayed) ==
    [key |-> key,
     status |-> iss.status,
     created |-> iss.created,
     resolved |-> iss.resolutiondate,
     cycle_time_hours |-> replayed.total,
     cycle_time_days |-> cycle_time_days(replayed.total),
     status_periods |-> replayed.periods]

\* get_issues raised (line 296): extract_metrics raises.
extract_raise ==
    /\ UNCHANGED <<execVars, fetchVars, replayVars, callVars>>
    /\ epc = "fetch"
    /\ fpc = "raised"
    /\ epc' = "raised"
    /\ UNCHANGED <<tracker, metrics, pos>>

\* get_issues returned (line 296): metrics = [] and the loop begins.
extract_for ==
    /\ UNCHANGED <<execVars, fetchVars, replayVars, callVars>>
    /\ epc = "fetch"
    /\ fpc = "done"
    /\ epc' = "for"
    /\ metrics' = <<>>
    /\ pos' = 1
    /\ UNCHANGED tracker

\* An iteration that appends a record only for a positive cycle time.
extract_record_positive_only ==
    /\ UNCHANGED <<execVars, fetchVars, callVars>>
    /\ epc = "for"
    /\ pos <= Len(returned)
    /\ LET iss == tracker[returned[pos]]
           replayed == calculate_cycle_time(iss, cycle_time_statuses, now)
       IN /\ issue' = iss
          /\ out' = replayed
          /\ IF replayed.kind # "returned"
             THEN epc' = "raised" /\ metrics' = <<>> /\ pos' = pos
             ELSE /\ epc' = epc
                  /\ metrics' = IF replayed.total > 0
                                 THEN Append(metrics, Record(returned[pos], iss, replayed))
                                 ELSE metrics
                  /\ pos' = pos + 1
    /\ UNCHANGED <<cycle_time_statuses, now, before, between, tracker>>

\* One iteration of the loop (lines 301..319): the issue is replayed and its
\* record appended; an exception of the replay ends extract_metrics, and
\* the list with it.
extract_record ==
    /\ UNCHANGED <<execVars, fetchVars, callVars>>
    /\ epc = "for"
    /\ pos <= Len(returned)
    /\ LET iss == tracker[returned[pos]]
           replayed == calculate_cycle_time(iss, cycle_time_statuses, now)
       IN /\ issue' = iss
          /\ out' = replayed
          /\ IF replayed.kind # "returned"
             THEN epc' = "raised" /\ metrics' = <<>> /\ pos' = pos
             ELSE /\ epc' = epc
                  /\ metrics' = Append(metrics, Record(returned[pos], iss, replayed))
                  /\ pos' = pos + 1
    /\ UNCHANGED <<cycle_time_statuses, now, before, between, tracker>>

\* return metrics (line 321).
extract_return ==
    /\ UNCHANGED <<execVars, fetchVars, replayVars, callVars>>
    /\ epc = "for"
    /\ pos > Len(returned)
    /\ epc' = "returned"
    /\ UNCHANGED <<tracker, metrics, pos>>

ExtractNext ==
    \/ get_issues
    \/ jql_while_exit
    \/ jql_page
    \/ jql_detail
    \/ jql_page_end
    \/ search_while_exit
    \/ search_page
    \/ extract_raise
    \/ extract_for
    \/ extract_record
    \/ extract_return

(***************************************************************************)
(* Properties of the replay.                                               *)
(***************************************************************************)
\* No item of any history entry has field 'status'.
NoStatusEvent(iss) ==
    \A k \in 1..Len(iss.histories) :
        \A j \in 1..Len(iss.histories[k].items) :
            iss.histories[k].items[j].field # "status"

\* The timestamps the replay parses before it looks at any item: the
\* issue's created and every history entry's created.
HeaderStampsParse(iss) ==
    /\ parse_datetime(iss.created) # ParseError
    /\ \A k \in 1..Len(iss.histories) :
          parse_datetime(iss.histories[k].created) # ParseError

\* C10 as stated: for every issue whose changelog holds no status-change
\* event, with no history entries or with entries none of whose items has
\* field 'status', calculate_cycle_time returns total 0 and no periods.
C10_NoStatusEventGivesZero ==
    (Called /\ NoStatusEvent(issue)) => out = Returned(0, <<>>)

\* C10 amended: for an issue whose changelog holds no status-change event,
\* calculate_cycle_time returns total 0 and no periods when the changelog
\* has no history entries (nothing is parsed), and when it has entries and
\* the issue's created and every entry's created parse; when it has entries
\* and one of these timestamps does not parse, the parse error is raised.
C10_NoStatusEventGivesZeroIfStampsParse ==
    (Called /\ NoStatusEvent(issue)) =>
        /\ issue.histories = <<>> => out = Returned(0, <<>>)
        /\ (issue.histories # <<>> /\ HeaderStampsParse(issue))
              => out = Returned(0, <<>>)
        /\ (issue.histories # <<>> /\ ~HeaderStampsParse(issue))
              => out = Raised("ValueError")

\* An issue in a cycle-time status whose only history entry changes another
\* field to a cycle-time status name, replayed to total 0 and no periods.
C10_Witness ==
    /\ out = Returned(0, <<>>)
    /\ Len(issue.histories) = 1
    /\ NoStatusEvent(issue)
    /\ issue.histories[1].items[1].toString \in cycle_time_statuses
    /\ issue.status \in cycle_time_statuses
    /\ issue.resolutiondate = BadDate

\* The status changes the replay walks: those of the sorted histories.
ChangesOf(iss) == StatusChanges(SortedByCreated(iss.histories))

\* The call returned, and the first status change of the issue replayed
\* enters a cycle-time status.
FirstChangeEntersCycle ==
    /\ out.kind = "returned"
    /\ ChangesOf(issue) # <<>>
    /\ ChangesOf(issue)[1].to_status \in cycle_time_statuses

\* C11: when the first status change (after sorting) has a to_status in the
\* cycle-time set, the first period calculate_cycle_time emits starts at the
\* issue's created timestamp, not at the event's.
C11_FirstPeriodStartsAtCreated ==
    (FirstChangeEntersCycle /\ out.periods # <<>>)
        => out.periods[1].start = parse_datetime(issue.created)

RECURSIVE SumDurations(_)
SumDurations(periods) ==
    IF periods = <<>> THEN 0
    ELSE periods[1].duration_hours + SumDurations(Tail(periods))

\* C12: for every issue and every cycle-time set, the total returned equals
\* the sum of the durations of the periods returned, and each period's
\* duration is its end minus its start.
C12_TotalIsSumOfDurations ==
    out.kind = "returned" =>
        /\ out.total = SumDurations(out.periods)
        /\ \A k \in 1..Len(out.periods) :
              /\ out.periods[k].start.kind = out.periods[k].end.kind
              /\ out.periods[k].duration_hours
                    = out.periods[k].end.t - out.periods[k].start.t

\* A period closed by an event and a final period, an hour each, total two.
C12_Witness ==
    /\ out.kind = "returned"
    /\ Len(out.periods) = 2
    /\ out.periods[1].duration_hours = 1
    /\ out.periods[2].duration_hours = 1
    /\ out.periods[2].status = issue.status
    /\ out.total = 2

\* current_cycle_start and status_periods when the walk reaches the k-th
\* status change of the issue replayed: lines 248..272 over the changes
\* before it.
FirstStart(changes) ==
    IF changes # <<>> /\ changes[1].to_status \in cycle_time_statuses
    THEN parse_datetime(issue.created) ELSE NoStart
Before(changes, k) ==
    Walk(SubSeq(changes, 1, k - 1), 1, cycle_time_statuses, FirstStart(changes), 0, <<>>)

\* The k-th status change goes from a cycle-time status to a cycle-time
\* status while a period is open.
CycleToCycle(changes, k) ==
    /\ changes[k].from_status \in cycle_time_statuses
    /\ changes[k].to_status \in cycle_time_statuses
    /\ Before(changes, k).start.kind # "None"

\* No status change after the k-th enters a cycle-time status before one
\* leaves a cycle-time status (true of a consistent chain).
NoReentryAfter(changes, k) ==
    \A m \in (k + 1)..Len(changes) :
        (\A j \in (k + 1)..m : changes[j].from_status \notin cycle_time_statuses)
            => changes[m].to_status \notin cycle_time_statuses

\* The period the k-th change closes is the one after those closed before.
ClosedAt(changes, k) == Len(Before(changes, k).periods) + 1

\* The k-th change closes the open period as a from_status period ending at
\* its time.
ClosesAtItsTime(changes, k) ==
    LET walked == Before(changes, k)
        n == Len(walked.periods) + 1
    IN /\ Len(out.periods) >= n
       /\ out.periods[n].status = changes[k].from_status
       /\ out.periods[n].start = walked.start
       /\ out.periods[n].end = changes[k].date

\* The period emitted next starts at the k-th change's time: the two share
\* the boundary and together span first start to second end.
NextStartsAtItsTime(changes, k) ==
    LET n == ClosedAt(changes, k)
    IN Len(out.periods) > n =>
          /\ out.periods[n + 1].start = changes[k].date
          /\ out.periods[n + 1].start = out.periods[n].end
          /\ out.periods[n].duration_hours + out.periods[n + 1].duration_hours
                = out.periods[n + 1].end.t - out.periods[n].start.t

\* C13 as stated: an event at t from cycle-time status A to cycle-time
\* status B while a period is open closes the open period as an A period
\* ending at t and opens one at t, and the next emitted period starts
\* exactly at t: shared boundary, no gap, t not counted twice.
C13_CycleToCycleSharesBoundary ==
    out.kind = "returned" =>
        LET changes == ChangesOf(issue)
        IN \A k \in 1..Len(changes) :
              CycleToCycle(changes, k) =>
                  /\ ClosesAtItsTime(changes, k)
                  /\ NextStartsAtItsTime(changes, k)

\* C13 amended: such an event closes the open period as an A period ending
\* at t and opens one at t; the next emitted period starts exactly at t
\* (shared boundary, no gap, t not counted twice) when no later status change
\* enters a cycle-time status before one leaves a cycle-time status.
C13_CycleToCycleSharesBoundaryUnlessReentry ==
    out.kind = "returned" =>
        LET changes == ChangesOf(issue)
        IN \A k \in 1..Len(changes) :
              CycleToCycle(changes, k) =>
                  /\ ClosesAtItsTime(changes, k)
                  /\ NoReentryAfter(changes, k)
                        => NextStartsAtItsTime(changes, k)

\* Doing -> Review at hour 2 on an issue created at hour 1 and still in
\* Review at hour 3: a Doing period 1..2 and a Review period 2..3.
C13_Witness ==
    /\ out.kind = "returned"
    /\ Len(ChangesOf(issue)) = 1
    /\ CycleToCycle(ChangesOf(issue), 1)
    /\ Len(out.periods) = 2
    /\ out.periods[1].status = "Doing"
    /\ out.periods[2].status = "Review"
    /\ out.periods[1].end.t = 2
    /\ out.periods[2].start.t = 2
    /\ out.total = 2

\* The walk has ended with current_cycle_start set and the issue is in a
\* cycle-time status: lines 276..289 emit the final period.
AfterLast == Before(ChangesOf(issue), Len(ChangesOf(issue)) + 1)
FinalPeriodEmitted ==
    /\ out.kind = "returned"
    /\ AfterLast.start.kind # "None"
    /\ issue.status \in cycle_time_statuses

StartStillSet(after) ==
    /\ out.kind = "returned"
    /\ after.start.kind # "None"

\* A final period starting at current_cycle_start follows the periods of
\* the walk, and its duration is added to the walk's total.
FinalPeriodAdded(after) ==
    LET n == Len(after.periods) + 1
    IN /\ Len(out.periods) = n
       /\ SubSeq(out.periods, 1, n - 1) = after.periods
       /\ out.periods[n].start = after.start
       /\ out.periods[n].duration_hours = out.periods[n].end.t - after.start.t
       /\ out.total = after.total + out.periods[n].duration_hours

\* C24 as stated: after the last event, whenever cycle_start is still set,
\* a final period starting at cycle_start is emitted and its duration added
\* to the total, whatever the issue's current status is.
C24_FinalPeriodWhateverStatus ==
    Called =>
        LET after == AfterLast
        IN StartStillSet(after) => FinalPeriodAdded(after)

\* C24, amended: after the last event, when cycle_start is still set, a
\* final period starting at cycle_start is emitted and its duration added to
\* the total if the issue's current status is a cycle-time status; if it is
\* not, no final period is emitted and the total is that of the walk.
C24_FinalPeriodOnlyInCycleStatus ==
    Called =>
        LET after == AfterLast
        IN StartStillSet(after) =>
              IF issue.status \in cycle_time_statuses
              THEN FinalPeriodAdded(after)
              ELSE /\ out.periods = after.periods
                   /\ out.total = after.total

\* An issue whose only event enters Doing at hour 1 and whose status field
\* says Backlog: nothing is emitted for the open period.
C24_Witness ==
    /\ StartStillSet(AfterLast)
    /\ issue.status = "Backlog"
    /\ "Backlog" \notin cycle_time_statuses
    /\ Len(issue.histories) = 1
    /\ AfterLast.start.t = 1
    /\ out = Returned(0, <<>>)

\* C28 (as claimed): when the first status change leaves a cycle-time
\* status, the issue was created in that status, and the first period
\* returned is that status from created_at to the first change's time,
\* whatever status the change goes to.
C28_TimeBeforeFirstTransitionCounted ==
    LET changes == ChangesOf(issue)
    IN (/\ out.kind = "returned"
        /\ changes # <<>>
        /\ changes[1].from_status \in cycle_time_statuses)
       => /\ Len(out.periods) >= 1
          /\ out.periods[1].status = changes[1].from_status
          /\ out.periods[1].start = parse_datetime(issue.created)
          /\ out.periods[1].end = changes[1].date

\* The histories in the order of their parsed timestamps, those of equal
\* timestamps in the order received.
RECURSIVE InsertByTime(_, _)
InsertByTime(h, sorted) ==
    IF sorted = <<>> THEN <<h>>
    ELSE IF parse_datetime(h.created).t < parse_datetime(Head(sorted).created).t
         THEN <<h>> \o sorted
         ELSE <<Head(sorted)>> \o InsertByTime(h, Tail(sorted))
RECURSIVE SortedByTime(_)
SortedByTime(hs) ==
    IF hs = <<>> THEN <<>>
    ELSE InsertByTime(hs[Len(hs)], SortedByTime(SubSeq(hs, 1, Len(hs) - 1)))

\* C25 (as claimed): the status-change events are walked in non-decreasing
\* order of their parsed timestamps, events of equal timestamps in their
\* original relative order, whatever the order of the histories and
\* whatever timezone offsets the timestamps carry.
C25_WalksInTimeOrder ==
    out.kind = "returned" =>
        ChangesOf(issue) = StatusChanges(SortedByTime(issue.histories))

\* C26 (as claimed): the periods returned are chronological and do not
\* overlap: each period starts no earlier than the one before it ended.
C26_PeriodsChronological ==
    out.kind = "returned" =>
        \A n \in 1..(Len(out.periods) - 1) :
            out.periods[n + 1].start.t >= out.periods[n].end.t

\* The histories oldest first, when they are served in the order of their
\* hours or, with no two at the same hour, in the opposite order.
OldestFirst(hs) ==
    IF \A k \in 1..(Len(hs) - 1) : hs[k].created.local <= hs[k + 1].created.local
    THEN hs
    ELSE IF \A k \in 1..(Len(hs) - 1) : hs[k].created.local > hs[k + 1].created.local
    THEN Reverse(hs)
    ELSE <<>>
ChainOf(iss) == StatusChanges(OldestFirst(iss.histories))

\* The status changes form a consistent chain that starts from and ends in
\* a status outside the cycle-time set, and the issue was created before the
\* first of them.
IsChain(changes) ==
    /\ changes # <<>>
    /\ \A k \in 2..Len(changes) : changes[k].from_status = changes[k - 1].to_status
    /\ changes[1].from_status \notin cycle_time_statuses
    /\ changes[Len(changes)].to_status \notin cycle_time_statuses
    /\ parse_datetime(issue.created).t < changes[1].date.t

\* One period per stay in a cycle-time status: from the change entering it
\* to the next change, in the order of the changes up to the k-th.
RECURSIVE Stays(_, _)
Stays(changes, k) ==
    IF k < 2 THEN <<>>
    ELSE Stays(changes, k - 1) \o
         (IF changes[k].from_status \in cycle_time_statuses
          THEN <<[status |-> changes[k].from_status,
                  start |-> changes[k - 1].date,
                  end |-> changes[k].date,
                  duration_hours |-> changes[k].date.t - changes[k - 1].date.t]>>
          ELSE <<>>)

\* C15: for a changelog that is a consistent chain leaving a non-cycle status
\* first and entering a non-cycle status last, on an issue created before
\* the first event, calculate_cycle_time emits exactly one period per stay
\* in a cycle-time status, from the event entering it to the next event, in
\* event order, and the total is their sum.
C15_ChainGivesOnePeriodPerStay ==
    (Called /\ IsChain(ChainOf(issue))) =>
        /\ out.kind = "returned"
        /\ out.periods = Stays(ChainOf(issue), Len(ChainOf(issue)))
        /\ out.total = SumDurations(Stays(ChainOf(issue), Len(ChainOf(issue))))

\* Backlog -> Doing at hour 1, Doing -> Review at hour 2, Review -> Backlog
\* at hour 3, served newest first, on an issue created at hour 0: periods
\* Doing 1..2 and Review 2..3, total 2.
C15_Witness ==
    /\ out.kind = "returned"
    /\ IsChain(ChainOf(issue))
    /\ Len(issue.histories) = 3
    /\ issue.histories[1].created.local = 3
    /\ issue.created.local = 0
    /\ issue.status = "Backlog"
    /\ cycle_time_statuses = default_cycle_time_statuses
    /\ Len(out.periods) = 2
    /\ out.periods[1].status = "Doing"
    /\ out.periods[1].start.t = 1
    /\ out.periods[1].end.t = 2
    /\ out.periods[2].status = "Review"
    /\ out.periods[2].start.t = 2
    /\ out.periods[2].end.t = 3
    /\ out.total = 2

\* C16: every period calculate_cycle_time emits has end >= start, so no
\* duration and no total is negative, for every issue: also when the issue's
\* created is later than the first event, and when its resolutiondate is
\* earlier than the last entry into a cycle-time status.
C16_PeriodsEndAfterStart ==
    out.kind = "returned" =>
        /\ \A k \in 1..Len(out.periods) :
              /\ out.periods[k].end.t >= out.periods[k].start.t
              /\ out.periods[k].duration_hours >= 0
        /\ out.total >= 0

\* Some timestamp of the issue cannot be parsed: its created, a history
\* entry's created, or its resolutiondate.
SomeStampUnparsable(iss) ==
    \/ parse_datetime(iss.created) = ParseError
    \/ \E k \in 1..Len(iss.histories) :
          parse_datetime(iss.histories[k].created) = ParseError
    \/ iss.resolutiondate # NoDate /\ parse_datetime(iss.resolutiondate) = ParseError

\* C17: whenever any timestamp of the issue cannot be parsed,
\* calculate_cycle_time fails with the parse error and returns no result,
\* whatever the changelog contents and the current status.
C17_UnparsableStampRaises ==
    (Called /\ SomeStampUnparsable(issue)) => out.kind = "ValueError"

SecondCall == before.kind # "not called"

\* The final period of the issue replayed ends at the clock: a period is open
\* after the last event, the issue is in a cycle-time status and has no
\* resolutiondate.
EndsAtClock == FinalPeriodEmitted /\ issue.resolutiondate = NoDate

\* C18 as stated: two calls of calculate_cycle_time with the same issue and
\* the same cycle-time set return the same total and the same periods,
\* whatever happened between them (other issues replayed, clock advanced).
C18_SameIssueSameResult ==
    SecondCall => out = before

\* C18 amended: the two calls return the same total and the same periods
\* when the clock reads the same or the final period does not end at the
\* clock; when it does (a period open after the last event, the issue in a
\* cycle-time status, no resolutiondate) the two results differ at most in
\* that last period's end and duration and in the total.  Other replays in
\* between have no influence.
C18_SameResultUnlessEndsAtClock ==
    SecondCall =>
        /\ "clock" \notin between => out = before
        /\ ~EndsAtClock => out = before
        /\ EndsAtClock =>
              /\ before.kind = "returned"
              /\ Len(before.periods) = Len(out.periods)
              /\ \A k \in 1..(Len(out.periods) - 1) : before.periods[k] = out.periods[k]
              /\ before.periods[Len(out.periods)].start = out.periods[Len(out.periods)].start
              /\ before.periods[Len(out.periods)].status = out.periods[Len(out.periods)].status

\* A resolved issue with a final period, replayed again after another issue
\* was replayed and the clock advanced: the same result.
C18_Witness ==
    /\ SecondCall
    /\ between = {"clock", "other"}
    /\ FinalPeriodEmitted
    /\ issue.resolutiondate # NoDate
    /\ out.total > 0
    /\ out = before

\* The token strategy has processed the page in data and has not raised.
JqlPageProcessed ==
    /\ jqlRaised = "no"
    /\ data # NoData
    /\ fpc \in {"jql_while", "done"}

\* The page in data carries a continuation token and no last-page signal.
ServerHasMore == data.isLast # "true" /\ data.nextPageToken # ""

\* The loop is about to request another page of the token strategy.
AnotherJqlPage == fpc = "jql_while" /\ Len(issues_jql) < max_results

\* C20: in the token strategy, after a page has been processed, another page
\* is requested if and only if the server has not signalled last-page, the
\* response carried a continuation token and fewer than max_results issues
\* are collected, and the next request carries exactly that token; so a
\* response with a token and no last-page flag is followed by another
\* request.
C20_NextPageIffServerHasMore ==
    /\ JqlPageProcessed =>
          /\ AnotherJqlPage <=> (ServerHasMore /\ Len(issues_jql) < max_results)
          /\ AnotherJqlPage => next_page_token = data.nextPageToken
    /\ (fpc = "jql_for" /\ params.endpoint = "jql")
          => params.nextPageToken = next_page_token

\* The offset strategy has appended the page in data.
SearchPageAppended ==
    /\ params.endpoint = "search"
    /\ fpc \in {"search_while", "done"}

\* The loop is about to request another page of the offset strategy.
AnotherSearchPage == fpc = "search_while" /\ Len(issues_search) < max_results

\* C21: in the offset strategy, after a page has been appended, the loop
\* stops if and only if the page held zero issues, or the number collected
\* is >= the total the page reports, or the number collected is >=
\* max_results; otherwise the next page is requested at an offset equal to
\* the number of issues collected so far.
C21_OffsetLoopStopsOrAsksAtCollected ==
    /\ SearchPageAppended =>
          /\ ~AnotherSearchPage <=>
                \/ Len(data.issues) = 0
                \/ Len(issues_search) >= data.total
                \/ Len(issues_search) >= max_results
          /\ AnotherSearchPage => start_at = Len(issues_search)
    /\ params.endpoint = "search" => params.startAt = params.collected

\* A second page of the offset strategy, asked for at offset 1 after a first
\* page of one issue, ends the fetch with two issues.
C21_Witness ==
    /\ SearchPageAppended
    /\ fpc = "done"
    /\ params.startAt = 1
    /\ params.collected = 1
    /\ Len(data.issues) = 1
    /\ data.total = 2
    /\ Len(returned) = 2

\* C29 (as claimed): every call of get_issues ends, by returning a list or
\* by raising, whatever the server answers, as long as every single call
\* of the executor returns or raises.
C29_GetIssuesTerminates == <>(fpc \in {"done", "raised"})

\* ceil(n / d) for d > 0.
CeilDiv(n, d) == (n + d - 1) \div d

\* C22: when no request fails and the server fills every page up to the
\* requested size, a call of get_issues that returns N issues by the token
\* strategy has made ceil(N/100) page requests and N detail requests; one
\* detail request has been made for each page entry gone through.
C22_FullPagesCostCeilPlusN ==
    /\ fpc = "jql_for" => detailCalls = params.collected + (idx - 1)
    /\ fpc = "done" =>
          /\ listCalls = CeilDiv(Len(returned), page_limit)
          /\ detailCalls = Len(returned)

C22_Witness ==
    /\ fpc = "done"
    /\ Len(returned) = 2 * page_limit + 1
    /\ listCalls = 3
    /\ detailCalls = 2 * page_limit + 1

(***************************************************************************)
(* Properties of extract_metrics.                                          *)
(***************************************************************************)
\* C19: extract_metrics finishes all fetching before it replays any issue;
\* when it returns, it returns exactly one record per issue get_issues
\* returned, in the same order; if get_issues raises, extract_metrics raises
\* and returns no records.
C19_FetchThenOneRecordPerIssue ==
    /\ (Called \/ epc \in {"for", "returned"}) => fpc = "done"
    /\ epc = "raised" => (fpc \in {"done", "raised"} /\ metrics = <<>>)
    /\ fpc = "raised" => (~Called /\ epc \in {"fetch", "raised"} /\ metrics = <<>>)
    /\ epc = "for" => Len(metrics) = pos - 1
    /\ epc = "returned" =>
          /\ Len(metrics) = Len(returned)
          /\ \A k \in 1..Len(returned) :
                /\ metrics[k].key = returned[k]
                /\ metrics[k].status = tracker[returned[k]].status
                /\ metrics[k].created = tracker[returned[k]].created

\* Two different issues fetched by the fallback, B before A: two records, B's
\* before A's.
C19_Witness ==
    /\ epc = "returned"
    /\ jqlRaised # "no"
    /\ returned = <<"B", "A">>
    /\ tracker["A"] # tracker["B"]
    /\ Len(metrics) = 2
    /\ metrics[1].key = "B"
    /\ metrics[2].key = "A"
    /\ metrics[1].cycle_time_hours # metrics[2].cycle_time_hours

\* C27 (as claimed): in every record, cycle_time_days is cycle_time_hours /
\* 24, whether the total the replay returned is zero, positive or negative
\* (both fields are in hours here: days are kept in twenty-fourths).
C27_DaysAreHoursOver24 ==
    \A k \in 1..Len(metrics) :
        metrics[k].cycle_time_days = metrics[k].cycle_time_hours

(***************************************************************************)
(* The specifications: the executor under every server behaviour, the      *)
(* fetcher under every behaviour of the executor and the server, and the   *)
(* replay of every issue, with timestamps of every form (SpecReplay) and   *)
(* with longer changelogs of well-formed timestamps, in any order          *)
(* (SpecTimeline) or forming a chain (SpecChain), and replayed twice       *)
(* (SpecTwice) or with timestamps of two timezone offsets (SpecZones),     *)
(* extract_metrics over the fetcher and the replay (SpecExtract, and       *)
(* SpecDays for totals of every sign), the token strategy against a server *)
(* that fills every page (SpecFull), and the fetcher taking its steps one  *)
(* after the other (SpecFetchLive).  Each leaves the other parts as        *)
(* constructed.                                                            *)
(***************************************************************************)
vars == <<execVars, fetchVars, replayVars, extractVars, callVars>>

InitExec == ExecInit({0, TimeCap}) /\ FetchInit({0}) /\ ReplayInit({MaxTime + 1})
    /\ ExtractInit({ATracker}) /\ CallInit
SpecExec == InitExec /\ [][ExecNext]_vars

InitFetch == FetchInit(0..MaxResults) /\ ExecInit({0}) /\ ReplayInit({MaxTime + 1})
    /\ ExtractInit({ATracker}) /\ CallInit
SpecFetch == InitFetch /\ [][FetchNext]_vars

\* The fetcher as a sequential program: a call under way takes its next
\* step (each call of the executor returns or raises).
SpecFetchLive == InitFetch /\ [][FetchNext]_vars /\ WF_vars(FetchNext)

InitReplay == ReplayInit({MaxTime + 1}) /\ ExecInit({0}) /\ FetchInit({0})
    /\ ExtractInit({ATracker}) /\ CallInit
SpecReplay == InitReplay /\ [][ReplayNext]_vars

InitTimeline == ReplayInit({MaxHour + 1}) /\ ExecInit({0}) /\ FetchInit({0})
    /\ ExtractInit({ATracker}) /\ CallInit
SpecTimeline == InitTimeline /\ [][TimelineNext]_vars

InitChain == ReplayInit({MaxChain + 1}) /\ ExecInit({0}) /\ FetchInit({0})
    /\ ExtractInit({ATracker}) /\ CallInit
SpecChain == InitChain /\ [][ChainNext]_vars

InitTwice == ReplayInit({MaxHour + 1}) /\ ExecInit({0}) /\ FetchInit({0})
    /\ ExtractInit({ATracker}) /\ CallInit
SpecTwice == InitTwice /\ [][TwiceNext]_vars

InitExtract == FetchInit(0..MaxResults) /\ ExecInit({0}) /\ ReplayInit({MaxTime + 1})
    /\ ExtractInit(Trackers) /\ CallInit
SpecExtract == InitExtract /\ [][ExtractNext]_vars

InitDays == FetchInit(0..MaxResults) /\ ExecInit({0}) /\ ReplayInit({MaxTime + 1})
    /\ ExtractInit(DayTrackers) /\ CallInit
SpecDays == InitDays /\ [][ExtractNext]_vars

InitZones == ReplayInit({MaxZoneHour + 1}) /\ ExecInit({0}) /\ FetchInit({0})
    /\ ExtractInit({ATracker}) /\ CallInit
SpecZones == InitZones /\ [][ZonesNext]_vars

InitFull == FetchInit(0..MaxFull) /\ ExecInit({0}) /\ ReplayInit({MaxTime + 1})
    /\ ExtractInit({ATracker}) /\ CallInit
SpecFull == InitFull /\ [][FullNext]_vars

=============================================================================
